---- MODULE Spec2Model ----
(***************************************************************************)
(* A model of main.py: a minimal authoritative DNS nameserver built on     *)
(* dnslib and socketserver.                                                *)
(*                                                                         *)
(* Text (domain names, addresses) is modelled by TLA+ strings, bytes by    *)
(* sequences of integers 0..255.  The wire codec (dnslib) is modelled at   *)
(* the byte level for the messages the server reads (header, question),    *)
(* and for the messages it writes (header, question, resource records,     *)
(* names written without compression pointers).                            *)
(***************************************************************************)
EXTENDS Integers, Sequences, FiniteSets, TLC

-----------------------------------------------------------------------------
(* Text and bytes *)

CharAt(s, i) == SubSeq(s, i, i)

Digits == "0123456789"
Upper  == "ABCDEFGHIJKLMNOPQRSTUVWXYZ"
Lower  == "abcdefghijklmnopqrstuvwxyz"

\* position of the one-character text c in the text s, or 0
RECURSIVE IndexIn(_, _, _)
IndexIn(s, c, i) ==
    IF i > Len(s) THEN 0
    ELSE IF CharAt(s, i) = c THEN i
    ELSE IndexIn(s, c, i + 1)

\* the characters of names and addresses
Characters ==
    {"-", "."} \cup { CharAt(Digits, i) : i \in 1..Len(Digits) }
    \cup { CharAt(Upper, i) : i \in 1..Len(Upper) }
    \cup { CharAt(Lower, i) : i \in 1..Len(Lower) }

\* the ASCII code of each character
Ascii ==
    [c \in Characters |->
        IF c = "-" THEN 45
        ELSE IF c = "." THEN 46
        ELSE IF IndexIn(Digits, c, 1) > 0 THEN 47 + IndexIn(Digits, c, 1)
        ELSE IF IndexIn(Upper, c, 1) > 0 THEN 64 + IndexIn(Upper, c, 1)
        ELSE 96 + IndexIn(Lower, c, 1)]

\* ord() of a one-character text
Ord(c) == Ascii[c]

\* the bytes dnslib prints unescaped in a label: letters, digits, hyphen
IsLDH(b) ==
    \/ b = 45
    \/ (b >= 48 /\ b <= 57)
    \/ (b >= 65 /\ b <= 90)
    \/ (b >= 97 /\ b <= 122)

\* chr() of such a byte
Chr(b) ==
    IF b = 45 THEN "-"
    ELSE IF b <= 57 THEN CharAt(Digits, b - 47)
    ELSE IF b <= 90 THEN CharAt(Upper, b - 64)
    ELSE CharAt(Lower, b - 96)

\* "\\%03d" % b, the escape dnslib prints for any other byte of a label
Escaped(b) ==
    "\\" \o Chr(48 + (b \div 100)) \o Chr(48 + ((b \div 10) % 10)) \o Chr(48 + (b % 10))

\* str.endswith
endswith(s, suffix) ==
    /\ Len(s) >= Len(suffix)
    /\ SubSeq(s, Len(s) - Len(suffix) + 1, Len(s)) = suffix

\* bytes of a text, one byte per character
TextBytes(s) == [i \in 1..Len(s) |-> Ord(CharAt(s, i))]

\* struct.pack(">H", n): two bytes, most significant first
PackH(n) == << (n \div 256) % 256, n % 256 >>

\* struct.unpack(">H", b)[0] of a two-byte sequence
UnpackH(b) == b[1] * 256 + b[2]

\* struct.pack(">I", n)
PackI(n) == PackH(n \div 65536) \o PackH(n % 65536)

\* position of the first "." of s at or after i, or 0
RECURSIVE FindDot(_, _)
FindDot(s, i) ==
    IF i > Len(s) THEN 0
    ELSE IF CharAt(s, i) = "." THEN i
    ELSE FindDot(s, i + 1)

\* s.split(".") of a text that ends in ".", without the final empty piece
RECURSIVE Labels(_)
Labels(s) ==
    IF Len(s) = 0 THEN <<>>
    ELSE LET d == FindDot(s, 1)
         IN  IF d = 0 THEN <<s>>
             ELSE <<SubSeq(s, 1, d - 1)>> \o Labels(SubSeq(s, d + 1, Len(s)))

-----------------------------------------------------------------------------
(* dnslib tables *)

\* dnslib.QTYPE, number -> mnemonic (the entries the model uses)
QTYPE_forward(n) ==
    CASE n = 1   -> "A"
      [] n = 2   -> "NS"
      [] n = 5   -> "CNAME"
      [] n = 6   -> "SOA"
      [] n = 15  -> "MX"
      [] n = 16  -> "TXT"
      [] n = 28  -> "AAAA"
      [] n = 255 -> "ANY"

\* getattr(QTYPE, mnemonic): mnemonic -> number
QTYPE_reverse(m) ==
    CASE m = "A"     -> 1
      [] m = "NS"    -> 2
      [] m = "CNAME" -> 5
      [] m = "SOA"   -> 6
      [] m = "MX"    -> 15
      [] m = "TXT"   -> 16
      [] m = "AAAA"  -> 28
      [] m = "ANY"   -> 255

KnownQtypes == {1, 2, 5, 6, 15, 16, 28, 255}

-----------------------------------------------------------------------------
(* Zone table *)

\* a __getattr__ that puts the label behind the name
DomainName_getattr_reversed(self, item) == self \o "." \o item

\* DomainName.__getattr__: item + "." + self
DomainName_getattr(self, item) == item \o "." \o self

\* record values; cls is the name of the dnslib class of the value
A(ip)        == [cls |-> "A", data |-> ip]
AAAA(t)      == [cls |-> "AAAA", addr |-> t]
MX(label)    == [cls |-> "MX", label |-> label, preference |-> 10]
NS(label)    == [cls |-> "NS", label |-> label]
CNAME(label) == [cls |-> "CNAME", label |-> label]
SOA(mname, rname, times) ==
    [cls |-> "SOA", mname |-> mname, rname |-> rname, times |-> times]

\* the body of the loop "for domain in DOMAINS" that derives a zone
BuildDomain(domain) ==
    LET name == domain.name
        soa_record ==
            SOA(DomainName_getattr(name, "ns1"),
                DomainName_getattr(name, "andrei"),
                <<201307231, 60 * 60 * 1, 60 * 60 * 3, 60 * 60 * 24, 60 * 60 * 1>>)
        ns_records ==
            << NS(DomainName_getattr(name, "ns1")),
               NS(DomainName_getattr(name, "ns2")) >>
    IN  [ name |-> name,
          ip |-> domain.ip,
          ttl |-> domain.ttl,
          soa_record |-> soa_record,
          ns_records |-> ns_records,
          records |->
            << << name,
                  << A(domain.ip), AAAA([i \in 1..16 |-> 0]),
                     MX(DomainName_getattr(name, "mail")), soa_record >>
                  \o ns_records >>,
               << DomainName_getattr(name, "ns1"), << A(domain.ip) >> >>,
               << DomainName_getattr(name, "ns2"), << A(domain.ip) >> >>,
               << DomainName_getattr(name, "mail"), << A(domain.ip) >> >>,
               << DomainName_getattr(name, "andrei"), << CNAME(name) >> >> >> ]

\* the literal DOMAINS of the source
SourceDomains ==
    << [name |-> "example.com.", ip |-> "192.168.0.100", ttl |-> 60 * 5] >>

-----------------------------------------------------------------------------
(* dnslib wire codec: reading a query *)

\* the exception value of an operation that raised
Raised(what) == [ok |-> FALSE, error |-> what]

\* DNSLabel.__str__ of one label
RECURSIVE LabelText(_)
LabelText(bytes) ==
    IF Len(bytes) = 0 THEN ""
    ELSE (IF IsLDH(bytes[1]) THEN Chr(bytes[1]) ELSE Escaped(bytes[1]))
         \o LabelText(Tail(bytes))

\* DNSBuffer.decode_name followed by str(): the name that starts at pos,
\* as text with a trailing dot, and the position after it.  Length bytes
\* above 63 (pointers, reserved) are answered with an error here; the
\* queries of the model contain none.
RECURSIVE decode_name(_, _, _)
decode_name(data, pos, text) ==
    IF pos > Len(data) THEN Raised("DNSError")
    ELSE LET length == data[pos]
         IN  IF length = 0
             THEN [ok |-> TRUE, text |-> IF text = "" THEN "." ELSE text,
                   pos |-> pos + 1]
             ELSE IF length > 63 \/ pos + length > Len(data)
             THEN Raised("DNSError")
             ELSE decode_name(data, pos + 1 + length,
                              text \o LabelText(SubSeq(data, pos + 1, pos + length))
                                   \o ".")

\* DNSHeader.parse: six big-endian 16-bit fields
DNSHeader_parse(data) ==
    IF Len(data) < 12 THEN Raised("DNSError")
    ELSE [ok |-> TRUE,
          id |-> UnpackH(SubSeq(data, 1, 2)),
          bitmap |-> UnpackH(SubSeq(data, 3, 4)),
          q |-> UnpackH(SubSeq(data, 5, 6)),
          a |-> UnpackH(SubSeq(data, 7, 8)),
          auth |-> UnpackH(SubSeq(data, 9, 10)),
          ar |-> UnpackH(SubSeq(data, 11, 12))]

\* DNSQuestion.parse at pos
DNSQuestion_parse(data, pos) ==
    LET n == decode_name(data, pos, "")
    IN  IF ~n.ok THEN n
        ELSE IF n.pos + 3 > Len(data) THEN Raised("DNSError")
        ELSE [ok |-> TRUE,
              q |-> [qname |-> n.text,
                     qtype |-> UnpackH(SubSeq(data, n.pos, n.pos + 1)),
                     qclass |-> UnpackH(SubSeq(data, n.pos + 2, n.pos + 3))],
              pos |-> n.pos + 4]

\* the questions of a message, count of them starting at pos
RECURSIVE ParseQuestions(_, _, _, _)
ParseQuestions(data, pos, count, acc) ==
    IF count = 0 THEN [ok |-> TRUE, questions |-> acc]
    ELSE LET one == DNSQuestion_parse(data, pos)
         IN  IF ~one.ok THEN one
             ELSE ParseQuestions(data, one.pos, count - 1, Append(acc, one.q))

\* DNSQuestion(): the question of a record that has none
DefaultQuestion == [qname |-> ".", qtype |-> 1, qclass |-> 1]

\* dnslib.DNSRecord.parse(data), for messages whose answer, authority and
\* additional counts are zero; bytes after the last question are ignored.
\* The result carries request.header and request.q.
DNSRecord_parse(data) ==
    LET header == DNSHeader_parse(data)
    IN  IF ~header.ok THEN header
        ELSE LET qs == ParseQuestions(data, 13, header.q, <<>>)
             IN  IF ~qs.ok THEN qs
                 ELSE [ok |-> TRUE,
                       header |-> header,
                       q |-> IF Len(qs.questions) > 0 THEN qs.questions[1]
                             ELSE DefaultQuestion]

-----------------------------------------------------------------------------
(* dnslib wire codec: writing a message *)

\* a name on the wire: length-prefixed labels and a final zero byte
\* (written in full; dnslib may shorten a repeated suffix to a pointer)
RECURSIVE EncodeLabels(_)
EncodeLabels(labels) ==
    IF Len(labels) = 0 THEN <<0>>
    ELSE <<Len(labels[1])>> \o TextBytes(labels[1]) \o EncodeLabels(Tail(labels))

NameOnWire(name) == IF name = "." THEN <<0>> ELSE EncodeLabels(Labels(name))

\* the names of the zone table of the source, encoded once
ZoneNames ==
    { "example.com.", "ns1.example.com.", "ns2.example.com.",
      "mail.example.com.", "andrei.example.com." }
ZoneNamesOnWire == [name \in ZoneNames |-> NameOnWire(name)]

\* DNSBuffer.encode_name
encode_name(name) ==
    IF name \in ZoneNames THEN ZoneNamesOnWire[name] ELSE NameOnWire(name)

\* DNSQuestion.pack
DNSQuestion_pack(q) == encode_name(q.qname) \o PackH(q.qtype) \o PackH(q.qclass)

\* DNSHeader.pack: id, the two flag bytes, the four counts
DNSHeader_pack(h) ==
    PackH(h.id)
    \o << h.qr * 128 + h.opcode * 8 + h.aa * 4 + h.tc * 2 + h.rd,
          h.ra * 128 + h.rcode >>
    \o PackH(h.q) \o PackH(h.a) \o PackH(h.auth) \o PackH(h.ar)

\* the query a client writes: DNSRecord.question(qname, qtype).pack()
\* with the given id and class
QueryBytes(id, qname, qtype, qclass) ==
    DNSHeader_pack([id |-> id, qr |-> 0, opcode |-> 0, aa |-> 0, tc |-> 0,
                    rd |-> 1, ra |-> 0, rcode |-> 0,
                    q |-> 1, a |-> 0, auth |-> 0, ar |-> 0])
    \o DNSQuestion_pack([qname |-> qname, qtype |-> qtype, qclass |-> qclass])

\* int() of a text of decimal digits
RECURSIVE ParseInt(_, _)
ParseInt(s, acc) ==
    IF Len(s) = 0 THEN acc
    ELSE ParseInt(Tail(s), acc * 10 + (Ord(CharAt(s, 1)) - 48))

\* the four bytes of a dotted-decimal IPv4 address
DottedBytes(ip) == LET parts == Labels(ip)
                   IN  [i \in 1..Len(parts) |-> ParseInt(parts[i], 0)]

\* the address of the zone of the source, converted once
SourceAddress == DottedBytes("192.168.0.100")

\* dnslib.A(ip): the address as four bytes
IPv4Bytes(ip) == IF ip = "192.168.0.100" THEN SourceAddress ELSE DottedBytes(ip)

\* rdata.pack of a record value
RDataPack(rdata) ==
    CASE rdata.cls = "A"     -> IPv4Bytes(rdata.data)
      [] rdata.cls = "AAAA"  -> rdata.addr
      [] rdata.cls = "MX"    -> PackH(rdata.preference) \o encode_name(rdata.label)
      [] rdata.cls = "NS"    -> encode_name(rdata.label)
      [] rdata.cls = "CNAME" -> encode_name(rdata.label)
      [] rdata.cls = "SOA"   ->
            encode_name(rdata.mname) \o encode_name(rdata.rname)
            \o PackI(rdata.times[1]) \o PackI(rdata.times[2])
            \o PackI(rdata.times[3]) \o PackI(rdata.times[4])
            \o PackI(rdata.times[5])

\* dnslib.RR(rname, rtype, rclass, ttl, rdata)
RR(rname, rtype, rclass, ttl, rdata) ==
    [rname |-> rname, rtype |-> rtype, rclass |-> rclass, ttl |-> ttl,
     rdata |-> rdata]

\* RR.pack
RR_pack(rr) ==
    LET rd == RDataPack(rr.rdata)
    IN  encode_name(rr.rname) \o PackH(rr.rtype) \o PackH(rr.rclass)
        \o PackI(rr.ttl) \o PackH(Len(rd)) \o rd

RECURSIVE PackAll(_)
PackAll(rrs) == IF Len(rrs) = 0 THEN <<>> ELSE RR_pack(rrs[1]) \o PackAll(Tail(rrs))

\* DNSRecord.pack: the counts of the header are the lengths of the sections
DNSRecord_pack(record) ==
    DNSHeader_pack([record.header EXCEPT !.q = 1,
                                         !.a = Len(record.rr),
                                         !.auth = Len(record.auth),
                                         !.ar = Len(record.ar)])
    \o DNSQuestion_pack(record.q)
    \o PackAll(record.rr) \o PackAll(record.auth) \o PackAll(record.ar)

-----------------------------------------------------------------------------
(* dns_response *)

\* a reply built on a default header: DNSHeader() draws a new id and
\* leaves qr, aa and ra at 0
NewReply_defaultHeader(request) ==
    [header |-> [id |-> (request.header.id + 1) % 65536, qr |-> 0, opcode |-> 0,
                 aa |-> 0, tc |-> 0, rd |-> 1, ra |-> 0, rcode |-> 0,
                 q |-> 1, a |-> 0, auth |-> 0, ar |-> 0],
     q |-> request.q,
     rr |-> <<>>, auth |-> <<>>, ar |-> <<>>]

\* dnslib.DNSRecord(dnslib.DNSHeader(id=..., qr=1, aa=1, ra=1), q=request.q)
NewReply(request) ==
    [header |-> [id |-> request.header.id, qr |-> 1, opcode |-> 0, aa |-> 1,
                 tc |-> 0, rd |-> 1, ra |-> 1, rcode |-> 0,
                 q |-> 1, a |-> 0, auth |-> 0, ar |-> 0],
     q |-> request.q,
     rr |-> <<>>, auth |-> <<>>, ar |-> <<>>]

\* a suffix test that forgets the label boundary
ZoneMatches_noBoundary(qn, domain) ==
    qn = domain.name \/ endswith(qn, domain.name)

\* qn == domain["name"] or qn.endswith("." + domain["name"])
ZoneMatches(qn, domain) ==
    qn = domain.name \/ endswith(qn, "." \o domain.name)

\* a filter that lets every record type through
TypeMatches_unfiltered(qt, rqt) == TRUE

\* qt in ["*", rqt]
TypeMatches(qt, rqt) == qt = "*" \/ qt = rqt

\* for rdata in rrs: if qt in ["*", rqt]: reply.add_answer(RR(...))
RECURSIVE AnswersOf(_, _, _, _)
AnswersOf(rrs, qname, qt, ttl) ==
    IF Len(rrs) = 0 THEN <<>>
    ELSE LET rdata == rrs[1]
             rqt == rdata.cls
         IN  (IF TypeMatches(qt, rqt)
              THEN << RR(qname, QTYPE_reverse(rqt), 1, ttl, rdata) >>
              ELSE <<>>)
             \o AnswersOf(Tail(rrs), qname, qt, ttl)

\* a lookup that matches owner names the way zones are matched: the query
\* name is also found under every owner name it is a subdomain of
RECURSIVE AnswersIn_bySuffix(_, _, _, _, _)
AnswersIn_bySuffix(items, qname, qn, qt, ttl) ==
    IF Len(items) = 0 THEN <<>>
    ELSE (IF items[1][1] = qn \/ endswith(qn, "." \o items[1][1])
          THEN AnswersOf(items[1][2], qname, qt, ttl)
          ELSE <<>>)
         \o AnswersIn_bySuffix(Tail(items), qname, qn, qt, ttl)

\* for name, rrs in domain["records"].items(): if name == qn: ...
RECURSIVE AnswersIn(_, _, _, _, _)
AnswersIn(items, qname, qn, qt, ttl) ==
    IF Len(items) = 0 THEN <<>>
    ELSE (IF items[1][1] = qn
          THEN AnswersOf(items[1][2], qname, qt, ttl)
          ELSE <<>>)
         \o AnswersIn(Tail(items), qname, qn, qt, ttl)

\* for rdata in domain["ns_records"]: reply.add_ar(RR(...))
AdditionalOf(domain) ==
    [i \in 1..Len(domain.ns_records) |->
        RR(domain.name, QTYPE_reverse("NS"), 1, domain.ttl, domain.ns_records[i])]

\* reply.add_auth(RR(...))
AuthorityOf(domain) ==
    << RR(domain.name, QTYPE_reverse("SOA"), 1, domain.ttl, domain.soa_record) >>

\* a body that adds the NS and SOA records only next to an answer
AddDomain_onlyWithAnswer(reply, domain, qname, qn, qt) ==
    IF ZoneMatches(qn, domain)
    THEN LET answers == AnswersIn(domain.records, qname, qn, qt, domain.ttl)
         IN  IF Len(answers) = 0 THEN reply
             ELSE [reply EXCEPT !.rr = @ \o answers,
                                !.ar = @ \o AdditionalOf(domain),
                                !.auth = @ \o AuthorityOf(domain)]
    ELSE reply

\* the body of "for domain in DOMAINS" for one domain
AddDomain(reply, domain, qname, qn, qt) ==
    IF ZoneMatches(qn, domain)
    THEN [reply EXCEPT
            !.rr = @ \o AnswersIn(domain.records, qname, qn, qt, domain.ttl),
            !.ar = @ \o AdditionalOf(domain),
            !.auth = @ \o AuthorityOf(domain)]
    ELSE reply

\* for domain in DOMAINS: ...
RECURSIVE ForDomains(_, _, _, _, _)
ForDomains(reply, domains, qname, qn, qt) ==
    IF Len(domains) = 0 THEN reply
    ELSE ForDomains(AddDomain(reply, domains[1], qname, qn, qt),
                    Tail(domains), qname, qn, qt)

\* the reply record dns_response builds from a parsed request
BuildReply(request, domains) ==
    LET qname == request.q.qname
        qn == qname
        qtype == request.q.qtype
        qt == QTYPE_forward(qtype)
    IN  ForDomains(NewReply(request), domains, qname, qn, qt)

\* return reply.pack(): the reply record and its bytes
Packed(reply) == [ok |-> TRUE, reply |-> reply, bytes |-> DNSRecord_pack(reply)]

\* the body of dns_response after the parse: the exception of the parse, or
\* the packed reply to the request
Answer(request, domains) ==
    IF ~request.ok THEN request ELSE Packed(BuildReply(request, domains))

\* dns_response(data): the packed reply, or the exception of the parse
dns_response(data, domains) == Answer(DNSRecord_parse(data), domains)

-----------------------------------------------------------------------------
(* Transport adapters *)

\* the bytes that bytes.strip() removes: space, \t, \n, \v, \f, \r
IsWhitespace(b) == b = 32 \/ (b >= 9 /\ b <= 13)

RECURSIVE lstrip(_)
lstrip(data) ==
    IF Len(data) > 0 /\ IsWhitespace(data[1]) THEN lstrip(Tail(data)) ELSE data

RECURSIVE rstrip(_)
rstrip(data) ==
    IF Len(data) > 0 /\ IsWhitespace(data[Len(data)])
    THEN rstrip(SubSeq(data, 1, Len(data) - 1))
    ELSE data

\* bytes.strip()
strip(data) == rstrip(lstrip(data))

\* the size of the buffer of self.request.recv(8192)
RecvBufSize == 8192

\* socket.recv(RecvBufSize) when n bytes of the stream have arrived
recv(stream, n) ==
    SubSeq(stream, 1, IF n < RecvBufSize THEN n ELSE RecvBufSize)

\* TCPRequestHandler.get_data, applied to what recv returned
TCP_get_data(received) ==
    LET data == strip(received)
    IN  IF Len(data) < 2 THEN Raised("struct.error")
        ELSE LET sz == UnpackH(SubSeq(data, 1, 2))
             IN  IF sz < Len(data) - 2
                 THEN Raised("Wrong size of TCP packet")
                 ELSE IF sz > Len(data) - 2
                 THEN Raised("Too big TCP packet")
                 ELSE [ok |-> TRUE, data |-> SubSeq(data, 3, Len(data))]

\* TCPRequestHandler.send_data: what is handed to sendall
TCP_send_data(data) ==
    IF Len(data) > 65535 THEN Raised("struct.error")
    ELSE [ok |-> TRUE, bytes |-> PackH(Len(data)) \o data]

\* UDPRequestHandler.get_data: self.request[0], the datagram
UDP_get_data(request) == request

\* UDPRequestHandler.send_data: the datagram and its destination
UDP_send_data(data, client_address) == [bytes |-> data, to |-> client_address]

-----------------------------------------------------------------------------
(* Bounds and inputs *)

\* number of clients that send one request each
NumClients == 2

\* recv may return after only the first 1..MaxCut bytes of a stream arrived
MaxCut == 2

\* longest payload and longest raw stream of the framing runs
MaxPayloadLen == 3
MaxStreamLen == 4

Transports == {"UDP", "TCP"}
Clients == 1..NumClients

\* for domain in DOMAINS: ... (the module-level loop)
BuildDomains(config) == [i \in 1..Len(config) |-> BuildDomain(config[i])]

\* a second zone, for tables of more than one zone
OtherDomain == [name |-> "example.org.", ip |-> "10.0.0.1", ttl |-> 60]

\* zone tables without overlap: the source's, and the source's with a second zone
Configs == { SourceDomains, SourceDomains \o <<OtherDomain>> }

\* the queries of the server runs
QueryX == QueryBytes(7, "example.com.", 1, 1)
QueryY == QueryBytes(513, "andrei.example.com.", 5, 1)
\* a datagram cut inside the question name
Malformed == SubSeq(QueryX, 1, 20)

UDPDatagrams == { QueryX, QueryY, Malformed }
\* two queries written back to back on one connection
Pipelined ==
    PackH(Len(QueryX)) \o QueryX \o PackH(Len(QueryY)) \o QueryY
TCPStreams == { PackH(Len(QueryX)) \o QueryX,
                PackH(Len(QueryX) + 1) \o QueryX,
                PackH(Len(QueryX) - 1) \o QueryX,
                Pipelined }

\* what a client writes, by transport
Sendable(t) == IF t = "UDP" THEN UDPDatagrams ELSE TCPStreams

\* the names, types and ids of the resolution runs
QueryNames ==
    { "example.com.", "ns1.example.com.", "ns2.example.com.",
      "mail.example.com.", "andrei.example.com.", "unknown.example.com.",
      "notexample.com.", "other-domain.test.", "EXAMPLE.COM.", "com.", ".",
      "example.org.", "ns1.example.org.", "www.example.org." }
QueryIds == {7, 513}
ResolveInputs ==
    { QueryBytes(id, n, t, 1) : id \in QueryIds, n \in QueryNames, t \in KnownQtypes }
    \cup { SubSeq(QueryX, 1, k) : k \in {0, 11, 12, 20, Len(QueryX) - 1} }

\* byte values of the framing runs: zero, one, two, space
FramingBytes == {0, 1, 2, 32}

RECURSIVE SeqsUpTo(_, _)
SeqsUpTo(S, n) ==
    IF n = 0 THEN { <<>> }
    ELSE LET shorter == SeqsUpTo(S, n - 1)
         IN  shorter \cup { Append(q, b) : q \in shorter, b \in S }

-----------------------------------------------------------------------------
(* State *)

VARIABLES
    DOMAINS,    \* the zone table built when the module is loaded
    args,       \* the parsed command line: [udp, tcp]
    main,       \* the main thread: [pc, i]
    servers,    \* the list "servers" of main, by transport
    server,     \* per transport: socket, listener thread and serve_forever loop
    clients,    \* per client: its transport and the bytes it has written
    handlers,   \* per client: the handler thread of its request
    delivered,  \* per client: the chunks of bytes written back to it
    rq,         \* one call of dns_response on its own
    fr,         \* one frame written by send_data and read by get_data
    tx          \* one query handled over UDP and over TCP, side by side

vars == << DOMAINS, args, main, servers, server, clients, handlers, delivered, rq, fr, tx >>

serverVars == << args, main, servers, server, clients, handlers, delivered >>

NoHandler ==
    [pc |-> "none", transport |-> "", client_address |-> 0,
     request |-> <<>>, data |-> <<>>, response |-> <<>>, error |-> ""]

\* a client that has not sent its request
NoClient == [transport |-> "", sent |-> <<>>]

NoServer ==
    [bound |-> FALSE, thread |-> "none", loop |-> "idle",
     shutdown_request |-> FALSE, is_shut_down |-> FALSE]

Idle == [phase |-> "idle"]

\* the process before main() runs
ProcessInit ==
    /\ main = [pc |-> "parse_args", i |-> 1]
    /\ servers = <<>>
    /\ server = [t \in Transports |-> NoServer]
    /\ handlers = [c \in Clients |-> NoHandler]
    /\ delivered = [c \in Clients |-> <<>>]

\* the server with the zone table of the source and any command line
Init ==
    /\ DOMAINS = BuildDomains(SourceDomains)
    /\ args \in [udp : BOOLEAN, tcp : BOOLEAN]
    /\ ProcessInit
    /\ clients = [c \in Clients |-> NoClient]
    /\ rq = Idle
    /\ fr = Idle
    /\ tx = Idle

-----------------------------------------------------------------------------
(* main() *)

\* a main that goes on without a transport
ParseArgs_unchecked ==
    /\ main.pc = "parse_args"
    /\ main' = [main EXCEPT !.pc = "create_udp"]
    /\ UNCHANGED << DOMAINS, args, servers, server, clients, handlers, delivered, rq, fr, tx >>

\* args = parser.parse_args(); if not (args.udp or args.tcp): parser.error(...)
ParseArgs ==
    /\ main.pc = "parse_args"
    /\ main' = [main EXCEPT !.pc = IF ~(args.udp \/ args.tcp)
                                   THEN "usage_error" ELSE "create_udp"]
    /\ UNCHANGED << DOMAINS, args, servers, server, clients, handlers, delivered, rq, fr, tx >>

\* if args.udp: servers.append(ThreadingUDPServer(...)): the socket is bound
CreateUDP ==
    /\ main.pc = "create_udp"
    /\ main' = [main EXCEPT !.pc = "create_tcp"]
    /\ IF args.udp
       THEN /\ servers' = Append(servers, "UDP")
            /\ server' = [server EXCEPT !["UDP"].bound = TRUE]
       ELSE UNCHANGED << servers, server >>
    /\ UNCHANGED << DOMAINS, args, clients, handlers, delivered, rq, fr, tx >>

\* if args.tcp: servers.append(ThreadingTCPServer(...)): bound and listening
CreateTCP ==
    /\ main.pc = "create_tcp"
    /\ IF args.tcp
       THEN /\ servers' = Append(servers, "TCP")
            /\ server' = [server EXCEPT !["TCP"].bound = TRUE]
       ELSE UNCHANGED << servers, server >>
    /\ main' = [pc |-> IF Len(servers') = 0 THEN "sleep" ELSE "start", i |-> 1]
    /\ UNCHANGED << DOMAINS, args, clients, handlers, delivered, rq, fr, tx >>

\* for server in servers: thread = Thread(target=server.serve_forever);
\* thread.daemon = True; thread.start()     (one iteration)
StartThread ==
    /\ main.pc = "start"
    /\ main.i <= Len(servers)
    /\ server' = [server EXCEPT ![servers[main.i]].thread = "started"]
    /\ main' = IF main.i = Len(servers)
               THEN [pc |-> "sleep", i |-> 1]
               ELSE [main EXCEPT !.i = @ + 1]
    /\ UNCHANGED << DOMAINS, args, servers, clients, handlers, delivered, rq, fr, tx >>

\* except KeyboardInterrupt: pass, reached from "while True: time.sleep(1)"
KeyboardInterrupt ==
    /\ main.pc = "sleep"
    /\ main' = [pc |-> IF Len(servers) = 0 THEN "exited" ELSE "shutdown", i |-> 1]
    /\ UNCHANGED << DOMAINS, args, servers, server, clients, handlers, delivered, rq, fr, tx >>

\* finally: for server in servers: server.shutdown(), first half:
\* the request to stop the loop is set
ShutdownRequest ==
    /\ main.pc = "shutdown"
    /\ server' = [server EXCEPT ![servers[main.i]].shutdown_request = TRUE]
    /\ main' = [main EXCEPT !.pc = "wait"]
    /\ UNCHANGED << DOMAINS, args, servers, clients, handlers, delivered, rq, fr, tx >>

\* a shutdown() that returns without waiting for the loop to end
ShutdownWait_noWait ==
    /\ main.pc = "wait"
    /\ main' = IF main.i = Len(servers)
               THEN [main EXCEPT !.pc = "exited"]
               ELSE [pc |-> "shutdown", i |-> main.i + 1]
    /\ UNCHANGED << DOMAINS, args, servers, server, clients, handlers, delivered, rq, fr, tx >>

\* server.shutdown(), second half: returns once serve_forever has left its loop
ShutdownWait ==
    /\ main.pc = "wait"
    /\ server[servers[main.i]].is_shut_down
    /\ main' = IF main.i = Len(servers)
               THEN [main EXCEPT !.pc = "exited"]
               ELSE [pc |-> "shutdown", i |-> main.i + 1]
    /\ UNCHANGED << DOMAINS, args, servers, server, clients, handlers, delivered, rq, fr, tx >>

-----------------------------------------------------------------------------
(* The listener threads: socketserver's serve_forever *)

\* the listener state of the design: Stopped, Listening or ShuttingDown
ListenerState(t) ==
    IF server[t].loop # "running" THEN "Stopped"
    ELSE IF server[t].shutdown_request THEN "ShuttingDown"
    ELSE "Listening"

\* the thread enters serve_forever
ServeForever(t) ==
    /\ server[t].thread = "started"
    /\ server[t].loop = "idle"
    /\ server' = [server EXCEPT ![t].loop = "running", ![t].is_shut_down = FALSE]
    /\ UNCHANGED << DOMAINS, args, main, servers, clients, handlers, delivered, rq, fr, tx >>

\* a loop that keeps the request in one place shared by all handler
\* threads: a handler that has not yet read its request sees the newest one
Accept_shared(t, c) ==
    /\ server[t].loop = "running"
    /\ ~server[t].shutdown_request
    /\ handlers[c].pc = "none"
    /\ \E sent \in Sendable(t) :
         /\ clients' = [clients EXCEPT ![c] = [transport |-> t, sent |-> sent]]
         /\ handlers' = [h \in Clients |->
               IF h = c
               THEN [NoHandler EXCEPT !.pc = "get_data",
                                      !.transport = t,
                                      !.client_address = c,
                                      !.request = sent]
               ELSE IF handlers[h].pc = "get_data" /\ handlers[h].transport = t
               THEN [handlers[h] EXCEPT !.request = sent]
               ELSE handlers[h]]
    /\ UNCHANGED << DOMAINS, args, main, servers, server, delivered, rq, fr, tx >>

\* one turn of the loop: the datagram or the connection of a client c that
\* has written its request is taken from the socket and a handler thread is
\* started for it
AcceptFrom(t, c, inputs) ==
    /\ server[t].loop = "running"
    /\ ~server[t].shutdown_request
    /\ handlers[c].pc = "none"
    /\ \E sent \in inputs :
         /\ clients' = [clients EXCEPT ![c] = [transport |-> t, sent |-> sent]]
         /\ handlers' = [handlers EXCEPT ![c] =
               [NoHandler EXCEPT !.pc = "get_data",
                                 !.transport = t,
                                 !.client_address = c,
                                 !.request = sent]]
    /\ UNCHANGED << DOMAINS, args, main, servers, server, delivered, rq, fr, tx >>

\* the same turn when the clients write any of the requests of the server runs
Accept(t, c) == AcceptFrom(t, c, Sendable(t))

\* a loop whose handler threads are daemon threads of the loop: they end
\* with it
ServeExit_abortsHandlers(t) ==
    /\ server[t].loop = "running"
    /\ server[t].shutdown_request
    /\ server' = [server EXCEPT ![t].loop = "exited",
                                ![t].shutdown_request = FALSE,
                                ![t].is_shut_down = TRUE]
    /\ handlers' = [c \in Clients |->
          IF handlers[c].transport = t
             /\ handlers[c].pc \in {"get_data", "dns_response", "send_data"}
          THEN [NoHandler EXCEPT !.pc = "aborted", !.transport = t,
                                 !.client_address = c]
          ELSE handlers[c]]
    /\ UNCHANGED << DOMAINS, args, main, servers, clients, delivered, rq, fr, tx >>

\* the loop sees the shutdown request and ends
ServeExit(t) ==
    /\ server[t].loop = "running"
    /\ server[t].shutdown_request
    /\ server' = [server EXCEPT ![t].loop = "exited",
                                ![t].shutdown_request = FALSE,
                                ![t].is_shut_down = TRUE]
    /\ UNCHANGED << DOMAINS, args, main, servers, clients, handlers, delivered, rq, fr, tx >>

-----------------------------------------------------------------------------
(* The handler threads: BaseRequestHandler.handle *)

\* a handler thread that has returned from handle(): its locals are gone
Ended(handler, pc, error) ==
    [NoHandler EXCEPT !.pc = pc, !.error = error,
                      !.transport = handler.transport,
                      !.client_address = handler.client_address]

\* an exception that is not caught and ends every running handler thread
Fail_killsAll(c, what) ==
    [h \in Clients |->
        IF h = c \/ handlers[h].pc \in {"get_data", "dns_response", "send_data"}
        THEN Ended(handlers[h], "failed", what)
        ELSE handlers[h]]

\* an exception that is logged, after which the handler sends all the same
Fail_thenSends(c, what) ==
    [handlers EXCEPT ![c].pc = "send_data", ![c].error = what]

\* except Exception: traceback.print_exc(): the handler ends, nothing is sent
Fail(c, what) == [handlers EXCEPT ![c] = Ended(@, "failed", what)]

\* the end of the first frame of a stream: its prefix and the bytes it declares
FirstFrame(stream) ==
    IF Len(stream) < 2 THEN Len(stream) ELSE 2 + UnpackH(SubSeq(stream, 1, 2))

\* how many bytes of a stream recv may find arrived: all of it, its first
\* few bytes, or its first frame while more is on the way
Arrivals(stream) ==
    { Len(stream) } \cup { n \in 1..MaxCut : n < Len(stream) }
    \cup { n \in { FirstFrame(stream) } : n < Len(stream) }

\* a handler that sends what it received back without parsing it
GetData_sendsUnparsed(c) ==
    /\ handlers[c].pc = "get_data"
    /\ handlers' = [handlers EXCEPT ![c].data = handlers[c].request,
                                    ![c].response = handlers[c].request,
                                    ![c].pc = "send_data"]
    /\ UNCHANGED << DOMAINS, args, main, servers, server, clients, delivered, rq, fr, tx >>

\* data = self.get_data()
GetData(c) ==
    /\ handlers[c].pc = "get_data"
    /\ IF handlers[c].transport = "UDP"
       THEN handlers' = [handlers EXCEPT
                ![c].data = UDP_get_data(handlers[c].request),
                ![c].pc = "dns_response"]
       ELSE \/ \E n \in Arrivals(handlers[c].request) :
                 LET got == TCP_get_data(recv(handlers[c].request, n))
                 IN  handlers' = IF got.ok
                                 THEN [handlers EXCEPT ![c].data = got.data,
                                                       ![c].pc = "dns_response"]
                                 ELSE Fail(c, got.error)
            \/ handlers' = Fail(c, "OSError")
    /\ UNCHANGED << DOMAINS, args, main, servers, server, clients, delivered, rq, fr, tx >>

\* the zone table of the source and what dns_response returns against it
\* for the datagrams of the server runs, computed once
SourceZones == BuildDomains(SourceDomains)
SourceResults == [data \in UDPDatagrams |-> dns_response(data, SourceZones)]

\* dns_response(data) against the zone table as it is
Respond(data) ==
    IF DOMAINS = SourceZones /\ data \in DOMAIN SourceResults
    THEN SourceResults[data]
    ELSE dns_response(data, DOMAINS)

\* a dns_response that writes to the zone table: it marks the first zone
\* as served by setting its ttl to 0
DnsResponse_writesZone(c) ==
    /\ handlers[c].pc = "dns_response"
    /\ LET r == Respond(handlers[c].data)
       IN  handlers' = IF r.ok
                       THEN [handlers EXCEPT ![c].response = r.bytes,
                                             ![c].pc = "send_data"]
                       ELSE Fail(c, r.error)
    /\ DOMAINS' = [DOMAINS EXCEPT ![1].ttl = 0]
    /\ UNCHANGED << args, main, servers, server, clients, delivered, rq, fr, tx >>

\* dns_response(data), the argument of send_data
DnsResponse(c) ==
    /\ handlers[c].pc = "dns_response"
    /\ LET r == Respond(handlers[c].data)
       IN  handlers' = IF r.ok
                       THEN [handlers EXCEPT ![c].response = r.bytes,
                                             ![c].pc = "send_data"]
                       ELSE Fail(c, r.error)
    /\ UNCHANGED << DOMAINS, args, main, servers, server, clients, delivered, rq, fr, tx >>

\* a send_data that writes the response twice
SendData_twice(c) ==
    /\ handlers[c].pc = "send_data"
    /\ LET out == IF handlers[c].transport = "UDP" THEN handlers[c].response
                  ELSE PackH(Len(handlers[c].response)) \o handlers[c].response
       IN  delivered' = [delivered EXCEPT ![c] = Append(Append(@, out), out)]
    /\ handlers' = [handlers EXCEPT ![c] = Ended(@, "done", "")]
    /\ UNCHANGED << DOMAINS, args, main, servers, server, clients, rq, fr, tx >>

\* self.send_data(...): sendto the client address (UDP) or sendall on the
\* connection (TCP); either may raise OSError, and then nothing is delivered
SendData(c) ==
    /\ handlers[c].pc = "send_data"
    /\ \/ /\ handlers[c].transport = "UDP"
          /\ LET out == UDP_send_data(handlers[c].response, handlers[c].client_address)
             IN  delivered' = [delivered EXCEPT ![out.to] = Append(@, out.bytes)]
          /\ handlers' = [handlers EXCEPT ![c] = Ended(@, "done", "")]
       \/ /\ handlers[c].transport = "TCP"
          /\ LET out == TCP_send_data(handlers[c].response)
             IN  IF out.ok
                 THEN /\ delivered' = [delivered EXCEPT ![c] = Append(@, out.bytes)]
                      /\ handlers' = [handlers EXCEPT ![c] = Ended(@, "done", "")]
                 ELSE /\ handlers' = Fail(c, out.error)
                      /\ UNCHANGED delivered
       \/ /\ handlers' = Fail(c, "OSError")
          /\ UNCHANGED delivered
    /\ UNCHANGED << DOMAINS, args, main, servers, server, clients, rq, fr, tx >>

Next ==
    \/ ParseArgs
    \/ CreateUDP
    \/ CreateTCP
    \/ StartThread
    \/ KeyboardInterrupt
    \/ ShutdownRequest
    \/ ShutdownWait
    \/ \E t \in Transports : ServeForever(t)
    \/ \E t \in Transports, c \in Clients : Accept(t, c)
    \/ \E t \in Transports : ServeExit(t)
    \/ \E c \in Clients : GetData(c)
    \/ \E c \in Clients : DnsResponse(c)
    \/ \E c \in Clients : SendData(c)

Spec == Init /\ [][Next]_vars

\* the steps of the main thread other than the arrival of the interrupt
MainStep ==
    \/ ParseArgs \/ CreateUDP \/ CreateTCP \/ StartThread
    \/ ShutdownRequest \/ ShutdownWait

\* the steps of a listener thread other than taking a request
ListenerStep(t) == ServeForever(t) \/ ServeExit(t)

\* the steps of the handler thread of client c
HandlerStep(c) == GetData(c) \/ DnsResponse(c) \/ SendData(c)

\* every thread that can take a step takes it in the end: the main thread,
\* the listener threads and the handler threads are scheduled by the
\* operating system.  When the interrupt arrives and when a client's
\* request is accepted is up to the environment.
Fairness ==
    /\ WF_vars(MainStep)
    /\ \A t \in Transports : WF_vars(ListenerStep(t))
    /\ \A c \in Clients : WF_vars(HandlerStep(c))

\* the requests of the shutdown runs: by transport, one that is answered
\* and one that fails
ShutdownSendable(t) ==
    IF t = "UDP" THEN { QueryX, Malformed }
    ELSE { PackH(Len(QueryX)) \o QueryX, PackH(Len(QueryX) + 1) \o QueryX }

NextShutdown ==
    \/ MainStep
    \/ KeyboardInterrupt
    \/ \E t \in Transports : ListenerStep(t)
    \/ \E t \in Transports, c \in Clients : AcceptFrom(t, c, ShutdownSendable(t))
    \/ \E c \in Clients : HandlerStep(c)

SpecShutdown == Init /\ [][NextShutdown]_vars /\ Fairness

-----------------------------------------------------------------------------
(* dns_response on its own *)

NoResult == Raised("not called")

\* one query, well formed or cut short, against a zone table without overlap
InitResolve ==
    /\ DOMAINS \in { BuildDomains(config) : config \in Configs }
    /\ args = [udp |-> TRUE, tcp |-> TRUE]
    /\ ProcessInit
    /\ clients = [c \in Clients |-> NoClient]
    /\ rq \in [phase : {"call"}, data : ResolveInputs, result : {NoResult}]
    /\ fr = Idle
    /\ tx = Idle

Resolve ==
    /\ rq.phase = "call"
    /\ rq' = [rq EXCEPT !.phase = "returned",
                        !.result = dns_response(rq.data, DOMAINS)]
    /\ UNCHANGED << DOMAINS, serverVars, fr, tx >>

NextResolve == Resolve

SpecResolve == InitResolve /\ [][NextResolve]_vars

\* a zone inside the zone of the source: its apex is an owner name of it
InnerDomain == [name |-> "mail.example.com.", ip |-> "10.0.0.2", ttl |-> 120]

\* zone tables with overlap, in both orders
OverlapConfigs ==
    { SourceDomains \o <<InnerDomain>>, <<InnerDomain>> \o SourceDomains }

OverlapNames ==
    { "example.com.", "ns1.example.com.", "andrei.example.com.",
      "mail.example.com.", "ns1.mail.example.com.", "mail.mail.example.com.",
      "www.mail.example.com.", "example.org." }
OverlapInputs ==
    { QueryBytes(7, n, t, 1) : n \in OverlapNames, t \in KnownQtypes }

\* one query against a zone table with overlap
InitOverlap ==
    /\ DOMAINS \in { BuildDomains(config) : config \in OverlapConfigs }
    /\ args = [udp |-> TRUE, tcp |-> TRUE]
    /\ ProcessInit
    /\ clients = [c \in Clients |-> NoClient]
    /\ rq \in [phase : {"call"}, data : OverlapInputs, result : {NoResult}]
    /\ fr = Idle
    /\ tx = Idle

SpecOverlap == InitOverlap /\ [][NextResolve]_vars

-----------------------------------------------------------------------------
(* TCP framing on its own *)

\* either a payload about to be written by send_data, or a stream that a
\* peer wrote byte by byte, about to be read by get_data
InitFraming ==
    /\ DOMAINS = BuildDomains(SourceDomains)
    /\ args = [udp |-> TRUE, tcp |-> TRUE]
    /\ ProcessInit
    /\ clients = [c \in Clients |-> NoClient]
    /\ rq = Idle
    /\ \/ fr \in [phase : {"send"}, payload : SeqsUpTo(FramingBytes, MaxPayloadLen),
                   stream : {<<>>}, received : {<<>>}, result : {NoResult}]
       \/ fr \in [phase : {"recv"}, payload : {<<>>},
                   stream : SeqsUpTo(FramingBytes, MaxStreamLen),
                   received : {<<>>}, result : {NoResult}]
    /\ tx = Idle

\* send_data(payload) writes the frame
FrameSend ==
    /\ fr.phase = "send"
    /\ LET out == TCP_send_data(fr.payload)
       IN  fr' = IF out.ok
                 THEN [fr EXCEPT !.phase = "sent", !.stream = out.bytes]
                 ELSE [fr EXCEPT !.phase = "done", !.result = out]
    /\ UNCHANGED << DOMAINS, serverVars, rq, tx >>

\* get_data reads what has arrived of the stream
FrameRecv ==
    /\ fr.phase \in {"sent", "recv"}
    /\ \E n \in Arrivals(fr.stream) :
         LET received == recv(fr.stream, n)
         IN  fr' = [fr EXCEPT !.phase = IF fr.phase = "sent" THEN "echoed" ELSE "read",
                              !.received = received,
                              !.result = TCP_get_data(received)]
    /\ UNCHANGED << DOMAINS, serverVars, rq, tx >>

NextFraming == FrameSend \/ FrameRecv

SpecFraming == InitFraming /\ [][NextFraming]_vars

-----------------------------------------------------------------------------
(* One query over both transports *)

\* handle() of a UDPRequestHandler on a datagram: what is sent back, or
\* the exception that is logged
UDP_handle(datagram, client_address) ==
    LET data == UDP_get_data(datagram)
        r == dns_response(data, DOMAINS)
    IN  IF ~r.ok THEN r
        ELSE [ok |-> TRUE, bytes |-> UDP_send_data(r.bytes, client_address).bytes]

\* handle() of a TCPRequestHandler on what recv returned
TCP_handle(received) ==
    LET got == TCP_get_data(received)
    IN  IF ~got.ok THEN got
        ELSE LET r == dns_response(got.data, DOMAINS)
             IN  IF ~r.ok THEN r ELSE TCP_send_data(r.bytes)

\* well-formed queries: names inside and outside the zone, several types,
\* the classes IN (1) and 32
TransportQueries ==
    { QueryBytes(7, n, t, k) :
        n \in { "example.com.", "andrei.example.com.", "unknown.example.com.",
                "other-domain.test." },
        t \in {1, 5, 6, 255},
        k \in {1, 32} }

\* one query, about to be sent as a datagram and as a well-framed stream
InitTransport ==
    /\ DOMAINS = BuildDomains(SourceDomains)
    /\ args = [udp |-> TRUE, tcp |-> TRUE]
    /\ ProcessInit
    /\ clients = [c \in Clients |-> NoClient]
    /\ rq = Idle
    /\ fr = Idle
    /\ tx \in [phase : {"both"}, query : TransportQueries,
                udp : {NoResult}, tcp : {NoResult}, whole : {FALSE}]

\* the datagram is handled
OverUDP ==
    /\ tx.phase = "both"
    /\ tx.udp = NoResult
    /\ tx' = [tx EXCEPT !.udp = UDP_handle(tx.query, 1)]
    /\ UNCHANGED << DOMAINS, serverVars, rq, fr >>

\* the stream is handled; whole records whether recv returned all of it
OverTCP ==
    /\ tx.phase = "both"
    /\ tx.tcp = NoResult
    /\ LET stream == PackH(Len(tx.query)) \o tx.query
       IN  \E n \in Arrivals(stream) :
             tx' = [tx EXCEPT !.tcp = TCP_handle(recv(stream, n)),
                              !.whole = (n = Len(stream))]
    /\ UNCHANGED << DOMAINS, serverVars, rq, fr >>

NextTransport == OverUDP \/ OverTCP

SpecTransport == InitTransport /\ [][NextTransport]_vars

-----------------------------------------------------------------------------
(* Properties of dns_response, checked under SpecResolve *)

\* the call of dns_response has returned a reply (the query was parsed)
Returned == rq.phase = "returned" /\ rq.result.ok

\* the question the client asked, read from the bytes it sent
Asked == DNSRecord_parse(rq.data).q

Zones == { DOMAINS[i] : i \in 1..Len(DOMAINS) }

\* the owner names configured under a zone
OwnerNames(Z) == { Z.records[i][1] : i \in 1..Len(Z.records) }

\* the records configured under owner name N of zone Z, in configured order
RecordsUnder(Z, N) ==
    LET i == CHOOSE i \in 1..Len(Z.records) : Z.records[i][1] = N
    IN  Z.records[i][2]

\* n lies within the zone of apex: equal to it, or a subdomain of it
Within(n, apex) ==
    \/ n = apex
    \/ /\ Len(n) > Len(apex)
       /\ SubSeq(n, Len(n) - Len(apex) + 1, Len(n)) = apex
       /\ SubSeq(n, Len(n) - Len(apex), Len(n) - Len(apex)) = "."

IsA(r) == r.cls = "A"

\* the type numbers of the record classes (RFC 1035, RFC 3596)
TypeNumber(cls) ==
    CASE cls = "A" -> 1 [] cls = "NS" -> 2 [] cls = "CNAME" -> 5
      [] cls = "SOA" -> 6 [] cls = "MX" -> 15 [] cls = "AAAA" -> 28

\* the resource records that carry the values rrs under owner and ttl
AsRRs(rrs, owner, ttl) ==
    [k \in 1..Len(rrs) |->
        [rname |-> owner, rtype |-> TypeNumber(rrs[k].cls), rclass |-> 1,
         ttl |-> ttl, rdata |-> rrs[k]]]

\* C1: for every configured zone Z and owner name N under Z, the reply to
\* the query (N, A) has in its answer section exactly the type-A records
\* configured under N, each with owner N and the TTL of Z, in its authority
\* section exactly the SOA record of Z and in its additional section
\* exactly the NS records of Z.
C1_TypeAQuery ==
    \A Z \in Zones : \A N \in OwnerNames(Z) :
        (Returned /\ Asked.qname = N /\ Asked.qtype = 1) =>
            LET reply == rq.result.reply
            IN  /\ reply.rr = AsRRs(SelectSeq(RecordsUnder(Z, N), IsA), N, Z.ttl)
                /\ reply.auth = AsRRs(<<Z.soa_record>>, Z.name, Z.ttl)
                /\ reply.ar = AsRRs(Z.ns_records, Z.name, Z.ttl)
                /\ SubSeq(rq.result.bytes, 7, 12) =
                       PackH(Len(reply.rr)) \o PackH(1) \o PackH(Len(Z.ns_records))

\* a type-A query for the apex of the second zone was answered with one record
C1_Witness ==
    /\ Returned
    /\ Len(DOMAINS) = 2
    /\ Asked = [qname |-> "example.org.", qtype |-> 1, qclass |-> 1]
    /\ Len(rq.result.reply.rr) = 1
    /\ rq.result.reply.rr[1].ttl = 60

\* C2: for a query of the wildcard type ANY (255) whose name is a
\* configured owner name, the answer section holds every record configured
\* under that name, of whatever type, in configured order.
C2_AnyQuery ==
    \A Z \in Zones : \A N \in OwnerNames(Z) :
        (Returned /\ Asked.qname = N /\ Asked.qtype = 255) =>
            rq.result.reply.rr = AsRRs(RecordsUnder(Z, N), N, Z.ttl)

\* C3: for every query name that neither equals a configured apex nor ends
\* with "." + apex, the reply has empty answer, authority and additional
\* sections and QR = 1.
C3_OutsideAllZones ==
    (Returned /\ \A Z \in Zones : ~Within(Asked.qname, Z.name)) =>
        /\ rq.result.reply.rr = <<>>
        /\ rq.result.reply.auth = <<>>
        /\ rq.result.reply.ar = <<>>
        /\ rq.result.reply.header.qr = 1
        /\ rq.result.bytes[3] >= 128
        /\ SubSeq(rq.result.bytes, 7, 12) = <<0, 0, 0, 0, 0, 0>>

\* the name notexample.com., which ends with the characters of an apex but
\* not at a label boundary, was answered with empty sections
C3_Witness ==
    /\ Returned
    /\ Asked.qname = "notexample.com."
    /\ rq.result.reply.auth = <<>>
    /\ rq.result.reply.header.qr = 1

\* C4: whenever the query name lies within a configured zone Z, for every
\* query type, the additional section holds every NS record of Z and the
\* authority section holds the SOA record of Z, each with the apex as owner
\* and the TTL of Z, also when the answer section is empty.
C4_AuthorityAlways ==
    \A Z \in Zones :
        (Returned /\ Within(Asked.qname, Z.name)) =>
            LET reply == rq.result.reply
                ns == AsRRs(Z.ns_records, Z.name, Z.ttl)
                soa == AsRRs(<<Z.soa_record>>, Z.name, Z.ttl)
            IN  /\ \A k \in 1..Len(ns) : \E j \in 1..Len(reply.ar) : reply.ar[j] = ns[k]
                /\ \E j \in 1..Len(reply.auth) : reply.auth[j] = soa[1]

\* a name of the zone without an owner-name entry was answered with an
\* empty answer section and with the SOA and NS records
C4_Witness ==
    /\ Returned
    /\ Asked.qname = "unknown.example.com."
    /\ rq.result.reply.rr = <<>>
    /\ Len(rq.result.reply.auth) = 1
    /\ Len(rq.result.reply.ar) = 2

\* C13: every reply of dns_response, whether or not a zone matches,
\* carries the transaction id of the query and has QR = 1, AA = 1, RA = 1,
\* in the reply record and in the bytes returned.
C13_HeaderOfReply ==
    Returned =>
        LET header == rq.result.reply.header
            bytes == rq.result.bytes
        IN  /\ header.id = UnpackH(SubSeq(rq.data, 1, 2))
            /\ header.qr = 1 /\ header.aa = 1 /\ header.ra = 1
            /\ SubSeq(bytes, 1, 2) = SubSeq(rq.data, 1, 2)
            /\ bytes[3] \div 128 = 1
            /\ (bytes[3] \div 4) % 2 = 1
            /\ bytes[4] \div 128 = 1

\* a query with id 513 for a name outside every zone was answered with
\* that id in the first two bytes
C13_Witness ==
    /\ Returned
    /\ \A Z \in Zones : ~Within(Asked.qname, Z.name)
    /\ SubSeq(rq.data, 1, 2) = <<2, 1>>
    /\ SubSeq(rq.result.bytes, 1, 2) = <<2, 1>>

\* C16: every record of the answer section has the query name as its owner
\* and carries a value configured under an owner name string-equal to the
\* query name; a name that owns nothing (also one that differs from an
\* owner name only in case) gets an empty answer section, and so does a
\* type-A query for a name that owns only a CNAME.
C16_ExactOwnerOnly ==
    Returned =>
        LET reply == rq.result.reply
            qn == Asked.qname
        IN  /\ \A k \in 1..Len(reply.rr) :
                  /\ reply.rr[k].rname = qn
                  /\ \E Z \in Zones :
                        /\ qn \in OwnerNames(Z)
                        /\ \E j \in 1..Len(RecordsUnder(Z, qn)) :
                              RecordsUnder(Z, qn)[j] = reply.rr[k].rdata
            /\ (\A Z \in Zones : qn \notin OwnerNames(Z)) => reply.rr = <<>>
            /\ \A Z \in Zones :
                  ( /\ qn \in OwnerNames(Z)
                    /\ Asked.qtype = 1
                    /\ SelectSeq(RecordsUnder(Z, qn), IsA) = <<>> ) =>
                      reply.rr = <<>>

\* the type-A query for andrei.example.com., which owns only a CNAME to the
\* apex, was answered with an empty answer section
C16_Witness ==
    /\ Returned
    /\ Asked = [qname |-> "andrei.example.com.", qtype |-> 1, qclass |-> 1]
    /\ rq.result.reply.rr = <<>>
    /\ Len(rq.result.reply.auth) = 1

IsSOA(r) == r.cls = "SOA"
IsNS(r) == r.cls = "NS"

\* C18: in every zone built at startup each owner name of the record
\* mapping equals the apex or ends with "." + apex, the zone has at least
\* one NS record and it has exactly one SOA record.
C18_ZoneInvariants ==
    \A i \in 1..Len(DOMAINS) :
        LET Z == DOMAINS[i]
            all == { <<N, j>> \in OwnerNames(Z) \X (1..8) : j <= Len(RecordsUnder(Z, N)) }
        IN  /\ Z.name \in OwnerNames(Z)
            /\ \A N \in OwnerNames(Z) : N = Z.name \/ endswith(N, "." \o Z.name)
            /\ Len(Z.ns_records) >= 1
            /\ \A k \in 1..Len(Z.ns_records) : IsNS(Z.ns_records[k])
            /\ Len(SelectSeq(RecordsUnder(Z, Z.name), IsNS)) >= 1
            /\ IsSOA(Z.soa_record)
            /\ { e \in all : IsSOA(RecordsUnder(Z, e[1])[e[2]]) } =
                   { <<Z.name, CHOOSE j \in 1..Len(RecordsUnder(Z, Z.name)) :
                                  RecordsUnder(Z, Z.name)[j] = Z.soa_record>> }
            /\ Cardinality({ e \in all : IsSOA(RecordsUnder(Z, e[1])[e[2]]) }) = 1

\* a table of two zones was built, and the second zone owns the name of its
\* mail host
C18_Witness ==
    /\ Len(DOMAINS) = 2
    /\ DOMAINS[2].name = "example.org."
    /\ Cardinality(OwnerNames(DOMAINS[2])) = 5
    /\ "mail.example.org." \in OwnerNames(DOMAINS[2])

-----------------------------------------------------------------------------
(* Properties of the TCP framing, checked under SpecFraming *)

\* C5: for any payload P, the bytes written by send_data(P), read whole by
\* get_data on the peer side, yield exactly P.
C5_RoundTrip ==
    (fr.phase = "echoed" /\ fr.received = fr.stream) =>
        (fr.result.ok /\ fr.result.data = fr.payload)

\* C6: get_data rejects every received stream whose first two bytes, read
\* as a big-endian length, differ from the number of bytes that follow them.
C6_RejectsMismatch ==
    ( /\ fr.phase \in {"read", "echoed"}
      /\ Len(fr.received) >= 2
      /\ UnpackH(SubSeq(fr.received, 1, 2)) # Len(fr.received) - 2 ) =>
        ~fr.result.ok

-----------------------------------------------------------------------------
(* Properties of the two transports, checked under SpecTransport *)

\* C20: for the same query, sent as a datagram and as a well-framed stream
\* that recv returns whole, in either order, the message delivered over
\* TCP after its two-byte prefix is the datagram delivered over UDP, and
\* the prefix is the big-endian length of that message.
C20_TransportIndependent ==
    (tx.phase = "both" /\ tx.udp # NoResult /\ tx.tcp # NoResult /\ tx.whole) =>
        /\ tx.udp.ok
        /\ tx.tcp.ok
        /\ SubSeq(tx.tcp.bytes, 3, Len(tx.tcp.bytes)) = tx.udp.bytes
        /\ SubSeq(tx.tcp.bytes, 1, 2) = PackH(Len(tx.udp.bytes))

-----------------------------------------------------------------------------
(* Properties of the server, checked under Spec *)

InFlight == {"get_data", "dns_response", "send_data"}

\* the query of client c: its datagram, or the first frame of its stream
\* after the prefix
OwnQuery(c) ==
    LET sent == clients[c].sent
        end == IF FirstFrame(sent) < Len(sent) THEN FirstFrame(sent) ELSE Len(sent)
    IN  IF clients[c].transport = "UDP" THEN sent ELSE SubSeq(sent, 3, end)

\* the replies to the well-formed queries of the server runs, computed
\* from the zone table of the source
Replies ==
    [query \in {QueryX, QueryY} |->
        dns_response(query, BuildDomains(SourceDomains)).bytes]

\* what client c is to receive: the reply to its own query, behind a
\* length prefix over TCP
OwnResponse(c) ==
    LET reply == Replies[OwnQuery(c)]
    IN  IF clients[c].transport = "UDP" THEN reply
        ELSE PackH(Len(reply)) \o reply

\* C7: under any interleaving of the handler threads of concurrent UDP
\* queries, every datagram a client receives is the reply to its own
\* query (own transaction id, name and type), and a handler that has
\* finished has sent exactly that one datagram to its own client.
C7_OwnResponse ==
    \A c \in Clients :
        clients[c].transport = "UDP" =>
            /\ \A k \in 1..Len(delivered[c]) :
                  LET own == DNSRecord_parse(clients[c].sent)
                      got == DNSRecord_parse(delivered[c][k])
                  IN  /\ own.ok
                      /\ got.header.id = own.header.id
                      /\ got.q = own.q
                      /\ delivered[c][k] = OwnResponse(c)
            /\ handlers[c].pc = "done" => Len(delivered[c]) = 1

\* two UDP queries for different names are handled at the same time: one
\* client has its reply while the reply of the other is about to be sent
C7_Witness ==
    /\ clients[1].transport = "UDP" /\ clients[1].sent = QueryX
    /\ clients[2].transport = "UDP" /\ clients[2].sent = QueryY
    /\ handlers[1].pc = "send_data"
    /\ handlers[2].pc = "done"
    /\ delivered[2] = << Replies[QueryY] >>
    /\ handlers[1].response = Replies[QueryX]
    /\ handlers[1].response # delivered[2][1]

\* C8: a failure in the handling of one request stays in its handler: the
\* step that fails changes neither a listener nor the main thread nor any
\* other handler, a Listening listener goes on accepting, and a request
\* handled next to a failed one completes with its own response.
C8_FailureContained ==
    /\ [][ \A c \in Clients :
              (handlers[c].pc # "failed" /\ handlers'[c].pc = "failed") =>
                  /\ server' = server
                  /\ main' = main
                  /\ servers' = servers
                  /\ delivered' = delivered
                  /\ \A d \in Clients \ {c} : handlers'[d] = handlers[d] ]_vars
    /\ [] \A d \in Clients :
            /\ handlers[d].pc = "done" => delivered[d] = << OwnResponse(d) >>
            /\ \A t \in Transports :
                  ( /\ ListenerState(t) = "Listening"
                    /\ handlers[d].pc = "none" ) => ENABLED Accept(t, d)

\* one request has failed, another one handled by the same listener has
\* its response, and that listener is still Listening
C8_Witness ==
    \E c, d \in Clients :
        /\ c # d
        /\ handlers[c].pc = "failed"
        /\ handlers[d].pc = "done"
        /\ handlers[d].transport = handlers[c].transport
        /\ delivered[d] = << OwnResponse(d) >>
        /\ ListenerState(handlers[c].transport) = "Listening"

ParseOrFramingErrors ==
    {"DNSError", "struct.error", "Wrong size of TCP packet", "Too big TCP packet"}

\* C9: when the handling of a request raises a parse error or, over TCP, a
\* framing error, nothing is ever sent for that request.
C9_NoResponseOnError ==
    \A c \in Clients :
        handlers[c].error \in ParseOrFramingErrors =>
            /\ delivered[c] = <<>>
            /\ handlers[c].pc = "failed"

\* a malformed datagram and a stream with a wrong length prefix have both
\* been handled, and neither client was sent anything
C9_Witness ==
    \E c, d \in Clients :
        /\ handlers[c].error = "DNSError"
        /\ handlers[d].error \in {"Wrong size of TCP packet", "Too big TCP packet"}
        /\ delivered[c] = <<>>
        /\ delivered[d] = <<>>

\* C10: without --udp and --tcp main stops at the usage error: no socket
\* is bound, no listener thread is started, no listener is Listening.
C10_NoTransportNoListener ==
    ~(args.udp \/ args.tcp) =>
        /\ main.pc \in {"parse_args", "usage_error"}
        /\ servers = <<>>
        /\ \A t \in Transports :
              /\ ~server[t].bound
              /\ server[t].thread = "none"
              /\ ListenerState(t) # "Listening"

\* main has stopped at the usage error
C10_Witness ==
    /\ ~(args.udp \/ args.tcp)
    /\ main.pc = "usage_error"
    /\ \A t \in Transports : ~server[t].bound

\* C15: no step changes the zone table, which stays equal to the table
\* built at startup under every interleaving of UDP and TCP requests,
\* failing ones included; and the objects of a request belong to its own
\* handler: a handler in flight holds the request of its own client, and a
\* step of one handler changes no other handler and no other delivery.
C15_ZoneReadOnly ==
    /\ [] (DOMAINS = BuildDomains(SourceDomains))
    /\ [][ DOMAINS' = DOMAINS ]_vars
    /\ [] \A c \in Clients :
            handlers[c].pc \in InFlight =>
                /\ handlers[c].request = clients[c].sent
                /\ handlers[c].client_address = c
                /\ handlers[c].transport = clients[c].transport
    /\ [][ \A c \in Clients :
              (handlers[c].pc \in InFlight /\ handlers'[c] # handlers[c]) =>
                  \A d \in Clients \ {c} :
                      handlers'[d] = handlers[d] /\ delivered'[d] = delivered[d] ]_vars

\* a UDP request has been answered and a TCP request has failed while the
\* zone table is the one built at startup
C15_Witness ==
    /\ DOMAINS = SourceZones
    /\ \E c, d \in Clients :
          /\ handlers[c].transport = "UDP" /\ handlers[c].pc = "done"
          /\ handlers[d].transport = "TCP" /\ handlers[d].pc = "failed"
          /\ delivered[c] # <<>>

\* the steps of handle() in their order
HandleOrder ==
    { <<"none", "get_data">>, <<"get_data", "dns_response">>,
      <<"dns_response", "send_data">>, <<"send_data", "done">>,
      <<"get_data", "failed">>, <<"dns_response", "failed">>,
      <<"send_data", "failed">> }

\* what a handler writes to its client for a response
OnTheWire(transport, response) ==
    IF transport = "UDP" THEN response ELSE PackH(Len(response)) \o response

\* C17: within a request the steps follow in the order receive, resolve
\* (parse, look up, serialize), send: a handler moves only along that order
\* or to its failure; the response a handler is about to send is the
\* serialized reply to the query it received, which parsed; bytes are
\* delivered only by the send step, and only that response.
C17_StepOrder ==
    /\ [][ \A c \in Clients :
              /\ handlers'[c].pc # handlers[c].pc =>
                     << handlers[c].pc, handlers'[c].pc >> \in HandleOrder
              /\ delivered'[c] # delivered[c] =>
                     /\ handlers[c].pc = "send_data" /\ handlers'[c].pc = "done"
                     /\ delivered'[c] =
                            Append(delivered[c],
                                   OnTheWire(handlers[c].transport,
                                             handlers[c].response)) ]_vars
    /\ [] \A c \in Clients :
            /\ handlers[c].pc = "send_data" =>
                   /\ DNSRecord_parse(handlers[c].data).ok
                   /\ handlers[c].data = OwnQuery(c)
                   /\ handlers[c].response = Replies[handlers[c].data]
            /\ delivered[c] # <<>> =>
                   /\ handlers[c].pc = "done"
                   /\ DNSRecord_parse(OwnQuery(c)).ok

\* a TCP request went through all steps: the client has the length prefix
\* and the reply to its query
C17_Witness ==
    \E c \in Clients :
        /\ clients[c].sent = PackH(Len(QueryX)) \o QueryX
        /\ handlers[c].pc = "done"
        /\ delivered[c] = << PackH(Len(Replies[QueryX])) \o Replies[QueryX] >>

\* C19: each accepted connection and each datagram gets at most one
\* response: get_data is entered once per request, a handler that has ended
\* takes no further step, a delivery is never followed by another, and of
\* two queries written on one connection only the first is ever answered.
C19_OneResponse ==
    /\ [] \A c \in Clients :
            /\ Len(delivered[c]) <= 1
            /\ (clients[c].sent = Pipelined /\ delivered[c] # <<>>) =>
                   delivered[c] = << OnTheWire("TCP", Replies[QueryX]) >>
    /\ [][ \A c \in Clients :
              /\ handlers'[c].pc = "get_data" =>
                     handlers[c].pc \in {"none", "get_data"}
              /\ handlers[c].pc \in {"done", "failed"} =>
                     (handlers'[c] = handlers[c] /\ delivered'[c] = delivered[c])
              /\ delivered[c] # <<>> => delivered'[c] = delivered[c] ]_vars

\* a client wrote two queries on one connection; the handler read the
\* first, answered it and ended
C19_Witness ==
    \E c \in Clients :
        /\ clients[c].sent = Pipelined
        /\ handlers[c].pc = "done"
        /\ delivered[c] = << OnTheWire("TCP", Replies[QueryX]) >>

-----------------------------------------------------------------------------
(* Properties of shutdown, checked under SpecShutdown *)

\* the KeyboardInterrupt has reached main
SignalOccurred == main.pc \in {"shutdown", "wait", "exited"}

\* the serve_forever loop of every started listener has exited
AllStopped ==
    \A t \in Transports : server[t].thread = "started" => server[t].loop = "exited"

\* the listeners whose shutdown() has returned
ShutDown ==
    { servers[k] : k \in { k \in 1..Len(servers) :
                              \/ main.pc = "exited"
                              \/ main.pc \in {"shutdown", "wait"} /\ k < main.i } }

\* C11: each listener follows Stopped -> Listening -> ShuttingDown ->
\* Stopped; once the KeyboardInterrupt has occurred every started listener
\* eventually reaches Stopped with its serve_forever loop exited;
\* shutdown() of a listener returns only after its loop has exited; and a
\* stopped listener never accepts a request nor listens again.
C11_Lifecycle ==
    /\ SignalOccurred ~> AllStopped
    /\ [] \A t \in ShutDown : server[t].loop = "exited"
    /\ [][ \A t \in Transports :
              /\ ListenerState(t) = "Listening" =>
                     ListenerState(t)' \in {"Listening", "ShuttingDown"}
              /\ ListenerState(t) = "ShuttingDown" =>
                     \/ ListenerState(t)' = "ShuttingDown"
                     \/ ListenerState(t)' = "Stopped" /\ server'[t].loop = "exited"
              /\ server[t].loop = "exited" => server'[t].loop = "exited"
              /\ ListenerState(t) = "Stopped" =>
                     \A c \in Clients :
                        (handlers[c].pc = "none" /\ handlers'[c].pc # "none") =>
                            handlers'[c].transport # t ]_vars

\* both listeners have listened, one of them has handled a request, and
\* after the interrupt both have stopped and main has left shutdown()
C11_Witness ==
    /\ main.pc = "exited"
    /\ Len(servers) = 2
    /\ \A t \in Transports : server[t].loop = "exited" /\ server[t].is_shut_down
    /\ \E c \in Clients : handlers[c].pc = "done"

\* C14: after the interrupt a request that is being handled is not
\* aborted: no step of main or of a listener changes a handler or what was
\* delivered, the handlers in flight eventually all have ended, each
\* having sent its one response or failed with an error, and once shutdown
\* is complete no further request is accepted.
C14_InFlightCompletes ==
    /\ [][ (main' # main \/ server' # server) =>
              (handlers' = handlers /\ delivered' = delivered) ]_vars
    /\ SignalOccurred ~> (\A c \in Clients : handlers[c].pc \notin InFlight)
    /\ [] \A c \in Clients :
          /\ handlers[c].pc \in {"none", "get_data", "dns_response", "send_data",
                                  "done", "failed"}
          /\ handlers[c].pc = "done" => Len(delivered[c]) = 1
          /\ handlers[c].pc = "failed" =>
                 (handlers[c].error # "" /\ delivered[c] = <<>>)
    /\ [][ main.pc = "exited" =>
              \A c \in Clients : handlers[c].pc = "none" => handlers'[c].pc = "none" ]_vars

\* shutdown is complete and every listener has stopped while a handler
\* still holds the response it is about to send
C14_Witness ==
    /\ main.pc = "exited"
    /\ Len(servers) > 0
    /\ AllStopped
    /\ \E c \in Clients :
          /\ handlers[c].pc = "send_data"
          /\ handlers[c].response = Replies[handlers[c].data]

-----------------------------------------------------------------------------
(* Properties of dns_response on overlapping zones, checked under SpecOverlap *)

\* the positions of the zones whose apex matches the query name
Matching == { i \in 1..Len(DOMAINS) : Within(Asked.qname, DOMAINS[i].name) }

\* the first configured zone among them
FirstMatching == DOMAINS[CHOOSE i \in Matching : \A j \in Matching : i <= j]

\* the values configured under owner name n of zone Z, none if n owns nothing
ValuesUnder(Z, n) == IF n \in OwnerNames(Z) THEN RecordsUnder(Z, n) ELSE <<>>

\* C12: when more than one configured zone matches the query name, the
\* reply holds records of the first configured matching zone alone: its SOA
\* record as the authority section, its NS records as the additional
\* section, and in the answer section only records it configures under the
\* query name, with its TTL.
C12_FirstMatchWins ==
    (Returned /\ Cardinality(Matching) > 1) =>
        LET Z == FirstMatching
            reply == rq.result.reply
            own == AsRRs(ValuesUnder(Z, Asked.qname), Asked.qname, Z.ttl)
        IN  /\ reply.auth = AsRRs(<<Z.soa_record>>, Z.name, Z.ttl)
            /\ reply.ar = AsRRs(Z.ns_records, Z.name, Z.ttl)
            /\ \A k \in 1..Len(reply.rr) :
                  \E j \in 1..Len(own) : reply.rr[k] = own[j]

====
